---------------------------- MODULE Spec2Model ----------------------------
(***************************************************************************)
(* A model of sidplayfp's configuration core: the INI document store       *)
(* (iniHandler) and the typed settings reader (IniConfig).                 *)
(*                                                                         *)
(* Strings are sequences of one-character strings, so that the character   *)
(* level code (find, substr, operator[]) is modelled as written.  String   *)
(* positions are the 0-based positions of the C++ code; npos is -1, which   *)
(* makes the size_t wrap-arounds of the code (0 - 1 = npos, npos + 1 = 0)   *)
(* come out as in the code.                                                *)
(***************************************************************************)
EXTENDS Integers, Sequences, FiniteSets, TLC

VARIABLES
    disk,        \* the file at the configuration path: whether it exists, whether
                 \* it can be opened for reading and for writing, its lines, and
                 \* bad: {} when it reads without error, {n} when reading it
                 \* fails after n lines
    ini,         \* the iniHandler: sections, curSection (an index into sections,
                 \* Len(sections) + 1 for end(), 0 for a singular iterator), changed
    pc,          \* where the caller of the handler stands
    op,          \* the last operation: its name, arguments and result
    before,      \* the handler and the typed fields before the last operation
    rec,         \* the typed fields the readers write to
    mutated,     \* history: an addSection, addValue or removeValue ran since the load
    env          \* the build (FEAT_FILTER_RANGE, FEAT_CW_STRENGTH) and the host:
                 \* whether utils::getDataPath() returns, whether the default
                 \* song length database is there, and whether the
                 \* configuration directory can be had

vars == <<disk, ini, pc, op, before, rec, mutated, env>>

(***************************************************************************)
(* Bounds of the model.                                                    *)
(***************************************************************************)
MaxLineLen == 3
MaxLines == 2

(***************************************************************************)
(* std::string operations.                                                 *)
(***************************************************************************)
npos == -1

Min(S) == CHOOSE i \in S : \A j \in S : i <= j
Max(S) == CHOOSE i \in S : \A j \in S : i >= j

\* s.find(c, from)
Find(s, c, from) ==
    LET S == {i \in 0..(Len(s) - 1) : i >= from /\ s[i + 1] = c}
    IN  IF S = {} THEN npos ELSE Min(S)

\* s.find_first_not_of(c, from)
FindFirstNotOf(s, c, from) ==
    LET S == {i \in 0..(Len(s) - 1) : i >= from /\ s[i + 1] # c}
    IN  IF S = {} THEN npos ELSE Min(S)

\* s.find_last_not_of(c, pos): pos is a size_t, so npos (and any pos past the
\* end) means "from the last character"
FindLastNotOf(s, c, pos) ==
    LET last == IF pos = npos \/ pos >= Len(s) THEN Len(s) - 1 ELSE pos
        S == {i \in 0..(Len(s) - 1) : i <= last /\ s[i + 1] # c}
    IN  IF S = {} THEN npos ELSE Max(S)

\* s.substr(pos, n): n is a size_t, so a negative n is a huge count; the count
\* is clamped to the end of the string
Substr(s, pos, n) ==
    LET cnt == IF n < 0 \/ pos + n > Len(s) THEN Len(s) - pos ELSE n
    IN  SubSeq(s, pos + 1, pos + cnt)

\* s.substr(pos)
SubstrFrom(s, pos) == SubSeq(s, pos + 1, Len(s))

(***************************************************************************)
(* iniHandler: the parser.                                                 *)
(***************************************************************************)
\* a function that throws parseError returns [ok |-> FALSE]
parseError == [ok |-> FALSE, val |-> <<>>]
Ok(v) == [ok |-> TRUE, val |-> v]

parseSection(buf) ==
    LET pos == Find(buf, "]", 0)
    IN  IF pos = npos THEN parseError
        ELSE Ok(Substr(buf, 1, pos - 1))

parseKey(buf) ==
    LET pos == Find(buf, "=", 0)
    IN  IF pos = npos THEN parseError
        ELSE LET key == Substr(buf, 0, FindLastNotOf(buf, " ", pos - 1) + 1)
                 vpos == FindFirstNotOf(buf, " ", pos + 1)
                 value == IF vpos = npos THEN <<>> ELSE SubstrFrom(buf, vpos)
             IN  Ok(<<key, value>>)

\* the j-th smallest element of a set of integers
Nth(S, j) == CHOOSE i \in S : Cardinality({k \in S : k <= i}) = j

\* the body of the getline loop of tryOpen: a line appends a section
\* (sections.emplace_back), or pushes an entry to sections.back() when there
\* is one (a comment kept as it is, or a key and its value), or does nothing
\* (an empty line, or one parseSection or parseKey throws on)
IsSectionLine(buf) == buf # <<>> /\ buf[1] = "[" /\ parseSection(buf).ok

IsEntryLine(buf) ==
    /\ buf # <<>>
    /\ \/ buf[1] \in {";", "#"}
       \/ buf[1] # "[" /\ parseKey(buf).ok

EntryOf(buf) == IF buf[1] \in {";", "#"} THEN <<<<>>, buf>> ELSE parseKey(buf).val

\* the entries the lines lo..hi push to sections.back()
EntriesOf(lines, lo, hi) ==
    LET S == {i \in lo..hi : IsEntryLine(lines[i])}
    IN  SubSeq([j \in 1..Cardinality(S) |-> EntryOf(lines[Nth(S, j)])], 1, Cardinality(S))

\* the getline loop of tryOpen over all lines: every section line appends a
\* section, which gets the entries of the lines up to the next section line;
\* the entries before the first section line go to the last section there
\* was before the call, if there was one
ParseLines(secs, lines) ==
    LET H == {i \in 1..Len(lines) : IsSectionLine(lines[i])}
        n == Cardinality(H)
        lead == EntriesOf(lines, 1, IF n = 0 THEN Len(lines) ELSE Nth(H, 1) - 1)
        stop(j) == IF j = n THEN Len(lines) ELSE Nth(H, j + 1) - 1
    IN  (IF secs = <<>> THEN secs ELSE [secs EXCEPT ![Len(secs)].second = @ \o lead])
        \o SubSeq([j \in 1..n |->
                     [first |-> parseSection(lines[Nth(H, j)]).val,
                      second |-> EntriesOf(lines, Nth(H, j) + 1, stop(j))]], 1, n)

(***************************************************************************)
(* iniHandler::write                                                       *)
(***************************************************************************)
WriteEntry(entry) ==
    (IF entry[1] # <<>> THEN entry[1] \o <<" ", "=", " ">> ELSE <<>>) \o entry[2]

WriteEntries(keys) ==
    SubSeq([i \in 1..Len(keys) |-> WriteEntry(keys[i])], 1, Len(keys))

WriteSection(sec) ==
    <<(<<"[">> \o sec.first \o <<"]">>)>> \o WriteEntries(sec.second) \o << <<>> >>

RECURSIVE WriteSections(_)
WriteSections(secs) ==
    IF secs = <<>> THEN <<>>
    ELSE WriteSection(Head(secs)) \o WriteSections(Tail(secs))


(***************************************************************************)
(* iniHandler: construction, open, close.                                  *)
(***************************************************************************)
\* iniHandler::iniHandler(): curSection is not initialised
NewHandler ==
    [sections |-> <<>>, curSection |-> 0, changed |-> FALSE, behind |-> <<>>, heap |-> "ok",
     vec |-> <<>>]

\* the lines getline delivers before the stream fails or ends
LinesRead(d) ==
    IF d.bad = {} THEN d.lines
    ELSE SubSeq(d.lines, 1, Min(d.bad \cup {Len(d.lines)}))

\* iniHandler::tryOpen: the handler after the call and the value returned
\* (!iniFile.bad()).  The push_back calls invalidate curSection.
tryOpen(h, d) ==
    IF ~(d.exists /\ d.readable) THEN [ini |-> h, ret |-> FALSE]
    ELSE [ini |-> [h EXCEPT !.sections = ParseLines(h.sections, LinesRead(d)),
                            !.curSection = 0],
          ret |-> d.bad = {}]

\* fs::ofstream f(fName): creates or truncates the file when it can be opened
\* for writing (a missing file can be created when d.writable; the process
\* that created a file can read it)
OfstreamOpen(d) ==
    IF d.writable
    THEN [d EXCEPT !.exists = TRUE, !.readable = d.exists => @, !.lines = <<>>]
    ELSE d

\* iniHandler::write: the disk after the call
write(h, d) ==
    IF ~d.writable THEN d
    ELSE [OfstreamOpen(d) EXCEPT !.lines = WriteSections(h.sections)]

\* iniHandler::open: the handler and the disk after the call, the value returned
open(h, d) ==
    LET t == tryOpen(h, d)
    IN  IF t.ret THEN [ini |-> t.ini, disk |-> d, ret |-> TRUE]
        ELSE [ini |-> t.ini, disk |-> OfstreamOpen(d), ret |-> d.writable]

\* iniHandler::close: the handler and the disk after the call, and whether
\* write was called
close(h, d) ==
    [ini |-> [sections |-> <<>>, curSection |-> 0, changed |-> FALSE, behind |-> <<>>,
              heap |-> h.heap, vec |-> <<>>],
     disk |-> IF h.changed THEN write(h, d) ELSE d,
     wrote |-> h.changed]

(***************************************************************************)
(* iniHandler: sections and keys.                                          *)
(***************************************************************************)
\* std::find_if(first, last, compare(name)) on the .first members: the index
\* of the first match, Len + 1 (end()) when there is none
FindFirst(seq, name) ==
    LET S == {i \in 1..Len(seq) : seq[i].first = name}
    IN  IF S = {} THEN Len(seq) + 1 ELSE Min(S)

FindKey(keys, key) ==
    LET S == {i \in 1..Len(keys) : keys[i][1] = key}
    IN  IF S = {} THEN Len(keys) + 1 ELSE Min(S)

\* curSection can be dereferenced
Selected(h) == h.curSection \in 1..Len(h.sections)

\* curSection is end() of a section list that has storage (after a
\* setSection that found nothing): *curSection is the storage behind the last
\* section, which is not an object
AtEnd(h) == h.sections # <<>> /\ h.curSection = Len(h.sections) + 1

\* the vector of entries of section n (its begin, end and storage) when the
\* section shows no entry: NoStorage when nothing was ever pushed to it
\* (begin and end are null), 0 when it has storage and its end is its begin,
\* u > 0 when erase(end()) has moved its end u elements before its begin,
\* Wild when its own pointers were overwritten.  h.vec holds this for the
\* sections it has an element for; a section with entries is intact
NoStorage == -1
Wild == -2

Vec(h, n) ==
    IF h.sections[n].second # <<>> THEN 0
    ELSE IF n \in DOMAIN h.vec THEN h.vec[n]
    ELSE NoStorage

VecOf(h) == [n \in 1..Len(h.sections) |-> Vec(h, n)]

\* the sections whose vector is not a vector any more
Broken(h) == {n \in 1..Len(h.sections) : Vec(h, n) > 0 \/ Vec(h, n) = Wild}

\* what a key operation sees through curSection: the selected section, or,
\* at end(), the storage behind the last section, which the builds at hand
\* read as a section whose entries are those written there before
Deref(h) ==
    IF AtEnd(h) THEN [h EXCEPT !.sections = Append(@, [first |-> <<>>, second |-> h.behind]),
                               !.vec = Append(VecOf(h), 0)]
    ELSE h

\* NUL is the terminator that str[str.size()] reads; Junk stands for any other
\* byte a string shows that is not its own
NUL == "NUL"
Junk == "JUNK"

\* what two neighbouring strings of live entries read as after a push_back
\* through end() has constructed its pair over them or moved their buffers:
\* the key and the value pushed, or bytes that are not their own, as many as
\* each had
Kinds == {<<"key", "value">>} \cup ({"nul", "junk"} \X {"nul", "junk"})

Overwritten(old, kind, key, value) ==
    CASE kind = "key" -> key
      [] kind = "value" -> value
      [] kind = "nul" -> [j \in 1..Len(old) |-> NUL]
      [] kind = "junk" -> [j \in 1..Len(old) |-> Junk]

\* a push_back through end() that touches no storage in use
NoHit == [n |-> 0, s |-> 0, a |-> "nul", b |-> "nul"]

\* where a push_back through end() lands.  The strings of the entries of a
\* section lie in a row (key, value, key, value, ...); the pair pushed is
\* written over two neighbours s and s + 1 of the row of section n, of which
\* the first or the last can lie outside the row, and a and b say what the two
\* read as afterwards.  With n behind the last section the write lands on
\* storage that no section shows.  All but NoHit damage the heap.
\* A push_back to a selected section whose vector has its end before its
\* begin writes the pair in front of the storage of the vector: on storage
\* that no section shows, or (s = -1) on the section object itself, whose
\* name then reads as the key pushed and whose vector is Wild.
Hits(h, r) ==
    IF AtEnd(h) /\ Len(r.sections[Len(r.sections)].second) > Len(h.behind)
    THEN {NoHit, [NoHit EXCEPT !.n = Len(h.sections) + 1]}
         \cup UNION {{[n |-> n, s |-> s, a |-> k[1], b |-> k[2]] :
                           s \in 0..(2 * Len(h.sections[n].second)), k \in Kinds} :
                       n \in 1..Len(h.sections)}
    ELSE IF Selected(h) /\ Vec(h, h.curSection) > 0
            /\ Vec(r, h.curSection) < Vec(h, h.curSection)
    THEN {[NoHit EXCEPT !.n = Len(h.sections) + 1],
          [NoHit EXCEPT !.n = h.curSection, !.s = -1]}
    ELSE {NoHit}

\* the sections after the pair (key, value) was written where hit says
Clobber(sections, hit, key, value) ==
    IF hit.n \notin 1..Len(sections) THEN sections
    ELSE LET keys == sections[hit.n].second
             New(i, part) ==
                 LET t == 2 * (i - 1) + part
                 IN  IF t = hit.s THEN Overwritten(keys[i][part], hit.a, key, value)
                     ELSE IF t = hit.s + 1
                     THEN Overwritten(keys[i][part], hit.b, key, value)
                     ELSE keys[i][part]
         IN  [sections EXCEPT
                 ![hit.n].second = [i \in 1..Len(keys) |-> <<New(i, 1), New(i, 2)>>]]

\* the handler after a key operation with this key that left r of what it
\* saw: at end() the entries stay behind the last section, and the sections
\* of the list are as they were but for what the write hit; in a selected
\* section the handler is r but for what a write in front of the storage hit
Store(h, r, hit, key) ==
    IF AtEnd(h)
    THEN LET behind == r.sections[Len(r.sections)].second
         IN  [h EXCEPT !.changed = r.changed,
                       !.behind = behind,
                       !.sections = IF hit.n = 0 THEN @
                                    ELSE Clobber(@, hit, behind[Len(behind)][1],
                                                 behind[Len(behind)][2]),
                       !.heap = IF hit.n = 0 THEN @ ELSE "damaged"]
    ELSE IF hit.n = 0 THEN r
    ELSE IF hit.s = -1
    THEN [r EXCEPT !.sections[hit.n].first = key,
                   !.vec = [VecOf(r) EXCEPT ![hit.n] = Wild],
                   !.heap = "damaged"]
    ELSE [r EXCEPT !.heap = "damaged"]

setSection(h, section) ==
    LET it == FindFirst(h.sections, section)
    IN  [ini |-> [h EXCEPT !.curSection = it], ret |-> it # Len(h.sections) + 1]

\* a char pointer: nullptr, or a string
nullptr == [null |-> TRUE, str |-> <<>>]
Ptr(s) == [null |-> FALSE, str |-> s]

\* keyIt->second.c_str(): the characters up to the first NUL
CStr(str) ==
    IF \A i \in 1..Len(str) : str[i] # NUL THEN str
    ELSE SubSeq(str, 1, (CHOOSE i \in 1..Len(str) :
                            str[i] = NUL /\ \A j \in 1..(i - 1) : str[j] # NUL) - 1)

\* iniHandler::getValue, for what Deref gives
getValue(h, key) ==
    LET keys == h.sections[h.curSection].second
        it == FindKey(keys, key)
    IN  IF it # Len(keys) + 1 THEN Ptr(CStr(keys[it][2])) ELSE nullptr

\* iniHandler::addSection, for a handler whose curSection is in the section
\* list or end(), or was never set (a null iterator) while the list has no
\* storage, where begin() and end() are null as well: curSection becomes the
\* iterator insert returns
addSection(h, section) ==
    LET pos == IF h.curSection = 0 THEN 1 ELSE h.curSection
        v == VecOf(h)
    IN  [h EXCEPT !.sections = SubSeq(@, 1, pos - 1)
                                 \o <<[first |-> section, second |-> <<>>]>>
                                 \o SubSeq(@, pos, Len(@)),
                  !.vec = SubSeq(v, 1, pos - 1) \o <<NoStorage>> \o SubSeq(v, pos, Len(v)),
                  !.curSection = pos,
                  !.changed = TRUE,
                  !.behind = <<>>]

\* iniHandler::addValue, for what Deref gives.  emplace_back on a vector
\* whose end lies before its begin constructs the pair at the end, outside
\* the storage, and moves the end up by one element: the section shows no
\* entry still (what the write lands on is in Hits)
addValue(h, key, value) ==
    LET v == Vec(h, h.curSection)
    IN  IF v > 0
        THEN [h EXCEPT !.vec = [VecOf(h) EXCEPT ![h.curSection] = v - 1],
                       !.changed = TRUE]
        ELSE IF v = Wild THEN [h EXCEPT !.changed = TRUE]
        ELSE [h EXCEPT !.sections[h.curSection].second = Append(@, <<key, value>>),
                       !.changed = TRUE]

\* what a moved-from pair of strings holds: unspecified by the language; the
\* common libraries leave it empty, a copying implementation leaves it as it was
MovedFromOutcomes == {"emptied", "kept"}
MovedFrom(x, mv) == IF mv = "emptied" THEN <<<<>>, <<>>>> ELSE x

\* std::remove_if(begin, end, compare(key)): the entries after the call and the
\* iterator returned.  From the first match on, every later entry that does
\* not match is moved down (*result = std::move(*first); ++result): the
\* entries that do not match end up in front, in order, and a place behind
\* them holds what it held, moved from if its entry was moved
RemoveIf(keys, key, mv) ==
    LET f == FindKey(keys, key)
        keep == {i \in 1..Len(keys) : keys[i][1] # key}
        n == Cardinality(keep)
    IN  IF f = Len(keys) + 1 THEN [keys |-> keys, first |-> f]
        ELSE [keys |-> [p \in 1..Len(keys) |->
                          IF p <= n THEN keys[Nth(keep, p)]
                          ELSE IF keys[p][1] # key THEN MovedFrom(keys[p], mv)
                          ELSE keys[p]],
              first |-> n + 1]

\* vector::erase(pos) for a pos that is not end(): the one element at pos goes
EraseAt(keys, pos) == SubSeq(keys, 1, pos - 1) \o SubSeq(keys, pos + 1, Len(keys))

\* vector::erase(end()) is undefined: the builds at hand move the end of the
\* vector back by one element and destroy what is there, and a build with
\* checked iterators aborts
EraseEndOutcomes == {"dropLast", "crash"}

\* iniHandler::removeValue, for what Deref gives: the handler after the call
\* and whether the process went down in it.  With no entry of this key
\* remove_if returns end() and erase(end()) moves the end back: off the last
\* entry, or, in a vector that shows none, before the begin (the call
\* returns and the vector is broken); with no storage the end is null and
\* the process goes down in the call
removeValue(h, key, mv, ub) ==
    LET keys == h.sections[h.curSection].second
        r == RemoveIf(keys, key, mv)
        v == Vec(h, h.curSection)
        Left(rest, w) == [h EXCEPT !.sections[h.curSection].second = rest,
                                   !.vec = [VecOf(h) EXCEPT ![h.curSection] = w],
                                   !.changed = TRUE]
    IN  IF r.first # Len(keys) + 1
        THEN [ini |-> Left(EraseAt(r.keys, r.first), 0), crashed |-> FALSE]
        ELSE IF ub = "crash" \/ (keys = <<>> /\ v = NoStorage)
        THEN [ini |-> h, crashed |-> TRUE]
        ELSE IF keys # <<>>
        THEN [ini |-> Left(SubSeq(keys, 1, Len(keys) - 1), 0), crashed |-> FALSE]
        ELSE [ini |-> Left(keys, IF v = Wild THEN Wild ELSE v + 1), crashed |-> FALSE]

(***************************************************************************)
(* dataParser: the string converters.  They read a value off the front of   *)
(* the string as a stream extraction does: leading white space is skipped,  *)
(* the longest prefix that is a value is taken, what follows is ignored,    *)
(* and the conversion fails when there is no such prefix.                   *)
(***************************************************************************)
Digits == {"0", "1", "2", "3", "4", "5", "6", "7", "8", "9"}
DigitVal(c) ==
    CASE c = "0" -> 0 [] c = "1" -> 1 [] c = "2" -> 2 [] c = "3" -> 3 [] c = "4" -> 4
      [] c = "5" -> 5 [] c = "6" -> 6 [] c = "7" -> 7 [] c = "8" -> 8 [] c = "9" -> 9

WhiteSpace == {" ", "\t"}

RECURSIVE DigitsVal(_)
DigitsVal(s) ==
    IF s = <<>> THEN 0
    ELSE DigitsVal(SubSeq(s, 1, Len(s) - 1)) * 10 + DigitVal(s[Len(s)])

\* the position of the first character from pos on that is not in set, or Len(s)
SkipWhile(s, pos, set) ==
    LET S == {i \in 0..(Len(s) - 1) : i >= pos /\ s[i + 1] \notin set}
    IN  IF S = {} THEN Len(s) ELSE Min(S)

\* dataParser::parseInt (numbers of the model have fewer than ten digits, so the
\* range check of the extraction never fails)
parseInt(str) ==
    LET i == SkipWhile(str, 0, WhiteSpace)
        signed == i < Len(str) /\ str[i + 1] \in {"+", "-"}
        d0 == IF signed THEN i + 1 ELSE i
        d1 == SkipWhile(str, d0, Digits)
        v == DigitsVal(Substr(str, d0, d1 - d0))
    IN  IF d1 = d0 THEN parseError
        ELSE Ok(IF signed /\ str[i + 1] = "-" THEN -v ELSE v)

\* dataParser::parseBool, read with std::boolalpha: "true" or "false"
StartsWith(s, pos, word) ==
    /\ pos + Len(word) <= Len(s)
    /\ Substr(s, pos, Len(word)) = word

parseBool(str) ==
    LET i == SkipWhile(str, 0, WhiteSpace)
    IN  IF StartsWith(str, i, <<"t", "r", "u", "e">>) THEN Ok(TRUE)
        ELSE IF StartsWith(str, i, <<"f", "a", "l", "s", "e">>) THEN Ok(FALSE)
        ELSE parseError

\* a double of the model is a decimal fraction <<n, k>>, n / 10^k, with no
\* trailing zero in n when k > 0
RECURSIVE Normal(_, _)
Normal(n, k) ==
    IF k > 0 /\ n % 10 = 0 THEN Normal(n \div 10, k - 1) ELSE <<n, k>>

\* dataParser::parseDouble: sign, digits, '.', digits, with at least one digit
\* (the strings of the model hold no exponent)
parseDouble(str) ==
    LET i == SkipWhile(str, 0, WhiteSpace)
        signed == i < Len(str) /\ str[i + 1] \in {"+", "-"}
        d0 == IF signed THEN i + 1 ELSE i
        d1 == SkipWhile(str, d0, Digits)
        dot == d1 < Len(str) /\ str[d1 + 1] = "."
        f0 == IF dot THEN d1 + 1 ELSE d1
        f1 == SkipWhile(str, f0, Digits)
        n == DigitsVal(Substr(str, d0, d1 - d0) \o Substr(str, f0, f1 - f0))
    IN  IF (d1 - d0) + (f1 - f0) = 0 THEN parseError
        ELSE Ok(Normal(IF signed /\ str[i + 1] = "-" THEN -n ELSE n, f1 - f0))

(***************************************************************************)
(* IniConfig: the static helpers.  Each returns the handler after the call *)
(* and what the call leaves in its result parameter.                       *)
(***************************************************************************)
colorStrings ==
    <<<<"b", "l", "a", "c", "k">>,
       <<"r", "e", "d">>,
       <<"g", "r", "e", "e", "n">>,
       <<"y", "e", "l", "l", "o", "w">>,
       <<"b", "l", "u", "e">>,
       <<"m", "a", "g", "e", "n", "t", "a">>,
       <<"c", "y", "a", "n">>,
       <<"w", "h", "i", "t", "e">>,
       <<"b", "r", "i", "g", "h", "t", " ", "b", "l", "a", "c", "k">>,
       <<"b", "r", "i", "g", "h", "t", " ", "r", "e", "d">>,
       <<"b", "r", "i", "g", "h", "t", " ", "g", "r", "e", "e", "n">>,
       <<"b", "r", "i", "g", "h", "t", " ", "y", "e", "l", "l", "o", "w">>,
       <<"b", "r", "i", "g", "h", "t", " ", "b", "l", "u", "e">>,
       <<"b", "r", "i", "g", "h", "t", " ", "m", "a", "g", "e", "n", "t", "a">>,
       <<"b", "r", "i", "g", "h", "t", " ", "c", "y", "a", "n">>,
       <<"b", "r", "i", "g", "h", "t", " ", "w", "h", "i", "t", "e">>>>

\* Str("...") spelled out
S_PAL == <<"P", "A", "L">>
S_NTSC == <<"N", "T", "S", "C">>
S_OLD_NTSC == <<"O", "L", "D", "_", "N", "T", "S", "C">>
S_DREAN == <<"D", "R", "E", "A", "N">>

\* readKey that takes an empty value for a missing key
readKey_addOnEmpty(h, key) ==
    LET value == getValue(h, key)
    IN  IF value.null \/ value.str = <<>>
        THEN [ini |-> addValue(h, key, <<>>), value |-> nullptr]
        ELSE [ini |-> h, value |-> value]

readKey(h, key) ==
    LET value == getValue(h, key)
    IN  IF value.null THEN [ini |-> addValue(h, key, <<>>), value |-> value]
        ELSE IF value.str = <<>> THEN [ini |-> h, value |-> nullptr]
        ELSE [ini |-> h, value |-> value]

readDouble(h, key, result) ==
    LET r == readKey(h, key)
        p == parseDouble(r.value.str)
    IN  IF r.value.null THEN [ini |-> r.ini, result |-> result]
        ELSE [ini |-> r.ini, result |-> IF p.ok THEN p.val ELSE result]

readInt(h, key, result) ==
    LET r == readKey(h, key)
        p == parseInt(r.value.str)
    IN  IF r.value.null THEN [ini |-> r.ini, result |-> result]
        ELSE [ini |-> r.ini, result |-> IF p.ok THEN p.val ELSE result]

readBool(h, key, result) ==
    LET r == readKey(h, key)
        p == parseBool(r.value.str)
    IN  IF r.value.null THEN [ini |-> r.ini, result |-> result]
        ELSE [ini |-> r.ini, result |-> IF p.ok THEN p.val ELSE result]

readString(h, key) ==
    LET value == getValue(h, key)
    IN  IF value.null THEN [ini |-> addValue(h, key, <<>>), str |-> <<>>]
        ELSE [ini |-> h, str |-> value.str]

\* the character codes of the characters of the model
Code(c) ==
    CASE c = NUL -> 0 [] c = "\t" -> 9 [] c = " " -> 32 [] c = "#" -> 35
      [] c = "'" -> 39 [] c = "+" -> 43 [] c = "-" -> 45 [] c = "." -> 46
      [] c \in Digits -> 48 + DigitVal(c)
      [] c = ":" -> 58 [] c = ";" -> 59 [] c = "=" -> 61
      [] c = "A" -> 65 [] c = "B" -> 66 [] c = "[" -> 91 [] c = "]" -> 93
      [] c = "a" -> 97 [] c = "x" -> 120

\* str[i]: the character, the terminator at i = size(), and past that whatever
\* the memory holds (ub)
StrAt(str, i, ub) ==
    IF i < Len(str) THEN str[i + 1] ELSE IF i = Len(str) THEN NUL ELSE ub

\* what a read past the terminator can give: a quote, or something else
PastTheEnd == {"'", NUL}

\* readChar: a char is its byte, 0..255; the int to char conversion keeps the
\* low eight bits, and (unsigned) c >= 32 holds of every byte but 0..31
readChar(h, key, ch, ub) ==
    LET r == readString(h, key)
        str == r.str
        p == parseInt(str)
        quoted == str[1] = "'"
        c == IF quoted THEN Code(StrAt(str, 1, ub))
             ELSE IF p.ok THEN p.val % 256 ELSE 0
    IN  IF str = <<>> THEN [ini |-> r.ini, ch |-> ch]
        ELSE IF quoted /\ StrAt(str, 2, ub) # "'" THEN [ini |-> r.ini, ch |-> ch]
        ELSE [ini |-> r.ini, ch |-> IF c >= 32 THEN c ELSE ch]

\* readTime (the numbers of the model are small enough for time * 1000 to stay
\* in an int)
readTime(h, key, value) ==
    LET r == readString(h, key)
        str == r.str
        sep == Find(str, ":", 0)
        dot == Find(str, ".", 0)
        fail == [ini |-> r.ini, value |-> value, ret |-> FALSE]
        done(time, milliseconds) ==
            [ini |-> r.ini, value |-> time * 1000 + milliseconds, ret |-> TRUE]
        secs == parseInt(str)
        min == parseInt(Substr(str, 0, sep))
        sec == IF dot = npos THEN parseInt(SubstrFrom(str, sep + 1))
               ELSE parseInt(Substr(str, sep + 1, dot - sep))
        msec == SubstrFrom(str, dot + 1)
        ms == parseInt(msec)
        milliseconds == IF dot = npos THEN 0
                        ELSE IF Len(msec) = 1 THEN ms.val * 100
                        ELSE IF Len(msec) = 2 THEN ms.val * 10
                        ELSE ms.val
    IN  IF str = <<>> THEN fail
        ELSE IF sep = npos THEN
            IF secs.ok THEN done(secs.val, 0) ELSE fail
        ELSE IF ~min.ok THEN fail
        ELSE IF min.val < 0 \/ min.val > 99 THEN fail
        ELSE IF ~sec.ok THEN fail
        ELSE IF dot # npos /\ ~ms.ok THEN fail
        ELSE IF dot # npos /\ Len(msec) \notin {1, 2, 3} THEN fail
        ELSE IF sec.val < 0 \/ sec.val > 59 THEN fail
        ELSE done(min.val * 60 + sec.val, milliseconds)

\* readColor: a color_t is its index, 0..15
readColor(h, key, ch) ==
    LET r == readString(h, key)
        S == {i \in 1..16 : colorStrings[i] = r.str}
    IN  IF r.str = <<>> \/ S = {} THEN [ini |-> r.ini, ch |-> ch, ret |-> FALSE]
        ELSE [ini |-> r.ini, ch |-> Min(S) - 1, ret |-> TRUE]

\* the C64Model block of readEmulation: an enumerated string
readC64Model(h, key, modelDefault) ==
    LET r == readString(h, key)
        str == r.str
    IN  [ini |-> r.ini,
         modelDefault |-> IF str = <<>> THEN modelDefault
                          ELSE IF str = S_PAL THEN "PAL"
                          ELSE IF str = S_NTSC THEN "NTSC"
                          ELSE IF str = S_OLD_NTSC THEN "OLD_NTSC"
                          ELSE IF str = S_DREAN THEN "DREAN"
                          ELSE modelDefault]

(***************************************************************************)
(* The document store as a state machine: a caller opens the file, selects *)
(* sections, looks up, adds and removes keys, reads typed values, and      *)
(* closes.                                                                 *)
(***************************************************************************)
MaxFileLines == 3
MaxOps == 2

\* the lines the files of this specification are made of
L_A == <<"[", "A", "]">>
L_B == <<"[", "B", "]">>
L_k1 == <<"k", "=", "1">>
L_k0 == <<"k", "=">>
L_c == <<";", "x">>
StoreLines == {L_A, L_B, L_k1, L_k0, L_c}

\* the sequences over S of length at most n
SeqsUpTo(S, n) == UNION {[1..m -> S] : m \in 0..n}

SectionNames == {<<"A">>, <<"B">>}
Keys == {<<"k">>, <<"j">>}
Values == {<<>>, <<"1">>}

\* the typed fields the readers of this specification write to, with the
\* values IniConfig::clear gives them
Defaults ==
    [verboseLevel |-> 0, bias |-> <<5, 1>>, modelForced |-> FALSE, ch |-> 63,
     recordLength |-> 210000, decorations |-> 15, modelDefault |-> "PAL",
     engine |-> <<>>]

\* the build and the host of the specifications that do not depend on them
HostEnv ==
    [filterRange |-> TRUE, cwStrength |-> TRUE, dataPath |-> TRUE, songlengths |-> FALSE,
     configPath |-> TRUE]

Snapshot == [ini |-> ini, rec |-> rec, disk |-> disk]
\* op: the last call, what it was given and returned, the number n of calls
\* since the file was opened and the number max of calls that are followed
NoOp == [name |-> "none", arg |-> <<>>, ret |-> FALSE, n |-> 0, max |-> MaxOps]
Did(name, arg, ret) == [op EXCEPT !.name = name, !.arg = arg, !.ret = ret, !.n = @ + 1]

Init ==
    /\ disk \in [exists : {TRUE}, readable : {TRUE}, writable : BOOLEAN,
                 lines : SeqsUpTo(StoreLines, MaxFileLines), bad : {{}}]
    /\ ini = NewHandler
    /\ pc = "closed"
    /\ op = NoOp
    /\ before = [ini |-> NewHandler, rec |-> Defaults, disk |-> disk]
    /\ rec = Defaults
    /\ mutated = FALSE
    /\ env = HostEnv

\* ini.open(path)
Open ==
    /\ pc = "closed"
    /\ LET o == open(ini, disk)
       IN  /\ ini' = o.ini
           /\ disk' = o.disk
           /\ pc' = IF o.ret THEN "open" ELSE "failed"
           /\ op' = [op EXCEPT !.name = "open", !.arg = <<>>, !.ret = o.ret, !.n = 0]
    /\ before' = Snapshot
    /\ mutated' = FALSE
    /\ UNCHANGED <<rec, env>>

CanStep == pc = "open" /\ op.n < op.max

\* a key operation returns: a section is selected, or curSection is end() and
\* the build reads the storage there
CanDeref(h) == Selected(h) \/ AtEnd(h)

SetSection(section) ==
    /\ CanStep
    /\ LET r == setSection(ini, section)
       IN  /\ ini' = r.ini
           /\ op' = Did("setSection", section, r.ret)
    /\ before' = Snapshot
    /\ UNCHANGED <<disk, pc, rec, mutated, env>>

GetValue(key) ==
    /\ CanStep
    /\ CanDeref(ini)
    /\ op' = Did("getValue", key, getValue(Deref(ini), key))
    /\ before' = Snapshot
    /\ UNCHANGED <<disk, ini, pc, rec, mutated, env>>

AddSection(section) ==
    /\ CanStep
    /\ ini.curSection # 0 \/ ini.sections = <<>>
    /\ ini' = addSection(ini, section)
    /\ op' = Did("addSection", section, TRUE)
    /\ before' = Snapshot
    /\ mutated' = TRUE
    /\ UNCHANGED <<disk, pc, rec, env>>

AddValue(key, value) ==
    /\ CanStep
    /\ CanDeref(ini)
    /\ \E r \in {addValue(Deref(ini), key, value)} :
       \E hit \in Hits(ini, r) : ini' = Store(ini, r, hit, key)
    /\ op' = Did("addValue", key, TRUE)
    /\ before' = Snapshot
    /\ mutated' = TRUE
    /\ UNCHANGED <<disk, pc, rec, env>>

RemoveValue(key) ==
    /\ CanStep
    /\ CanDeref(ini)
    /\ \E mv \in MovedFromOutcomes, ub \in EraseEndOutcomes :
         LET r == removeValue(Deref(ini), key, mv, ub)
         IN  /\ ini' = Store(ini, r.ini, NoHit, key)
             /\ pc' = IF r.crashed THEN "crashed" ELSE pc
             /\ op' = Did("removeValue", key, ~r.crashed)
    /\ before' = Snapshot
    /\ mutated' = TRUE
    /\ UNCHANGED <<disk, rec, env>>

\* a typed read: the handler and the field after the call
Read(name, key, r, field, value, ret) ==
    /\ CanStep
    /\ CanDeref(ini)
    /\ \E hit \in Hits(ini, r.ini) : ini' = Store(ini, r.ini, hit, key)
    /\ rec' = [rec EXCEPT ![field] = value]
    /\ op' = Did(name, key, ret)
    /\ before' = Snapshot
    /\ mutated' = (mutated \/ r.ini # Deref(ini))
    /\ UNCHANGED <<disk, pc, env>>

ReadInt(key) ==
    LET r == readInt(Deref(ini), key, rec.verboseLevel)
    IN  Read("readInt", key, r, "verboseLevel", r.result, TRUE)

ReadDouble(key) ==
    LET r == readDouble(Deref(ini), key, rec.bias)
    IN  Read("readDouble", key, r, "bias", r.result, TRUE)

ReadBool(key) ==
    LET r == readBool(Deref(ini), key, rec.modelForced)
    IN  Read("readBool", key, r, "modelForced", r.result, TRUE)

ReadChar(key) ==
    \E ub \in PastTheEnd :
        LET r == readChar(Deref(ini), key, rec.ch, ub)
        IN  Read("readChar", key, r, "ch", r.ch, TRUE)

\* int time; if (readTime(ini, key, time)) recordLength = time;
\* (readTime leaves time alone when it returns false)
ReadTime(key) ==
    LET r == readTime(Deref(ini), key, rec.recordLength)
    IN  Read("readTime", key, r, "recordLength", IF r.ret THEN r.value ELSE rec.recordLength, r.ret)

ReadColor(key) ==
    LET r == readColor(Deref(ini), key, rec.decorations)
    IN  Read("readColor", key, r, "decorations", r.ch, r.ret)

ReadC64Model(key) ==
    LET r == readC64Model(Deref(ini), key, rec.modelDefault)
    IN  Read("readEnum", key, r, "modelDefault", r.modelDefault, TRUE)

\* engine = readString(ini, key)
ReadString(key) ==
    LET r == readString(Deref(ini), key)
    IN  Read("readString", key, r, "engine", r.str, TRUE)

\* a key operation on a handler whose curSection cannot be dereferenced (a
\* null iterator, or end()), addSection on one whose curSection was never
\* set, or either on a damaged heap: undefined.  This is the outcome in which
\* the process goes down; the outcomes in which the call returns are those of
\* the actions above
KeyOps == {"getValue", "addValue", "removeValue", "readInt", "readDouble", "readBool",
           "readChar", "readTime", "readColor", "readEnum", "readString"}

Undefined ==
    /\ CanStep
    /\ \E name \in KeyOps \cup {"addSection"} :
         /\ \/ IF name = "addSection" THEN ini.curSection = 0 ELSE ~Selected(ini)
            \/ ini.heap = "damaged"
         /\ op' = Did(name, <<>>, FALSE)
    /\ pc' = "crashed"
    /\ before' = Snapshot
    /\ UNCHANGED <<disk, ini, rec, mutated, env>>

\* what the entries of a broken vector read as when write walks up from its
\* begin: the loop ends in the first entry, or writes one that was erased
\* there, or bytes that are not an entry, and ends in the next
Stale == {<<>>} \cup {<<e>> : e \in (Keys \X Values) \cup {<<<<Junk>>, <<Junk>>>>}}

\* iniHandler::write on a handler with a broken vector: the file is
\* truncated, the sections in front of the first broken one are written, then
\* its name, and the process goes down in the loop over its entries (with a
\* damaged heap as soon as anything is allocated).  The disks it can leave
DyingWrites(h, d) ==
    IF ~(h.changed /\ d.writable) THEN {d}
    ELSE LET n == Min(Broken(h))
             front == WriteSections(SubSeq(h.sections, 1, n - 1))
                          \o <<(<<"[">> \o h.sections[n].first \o <<"]">>)>>
             whole == {front \o WriteEntries(t) : t \in Stale}
         IN  {[OfstreamOpen(d) EXCEPT !.lines = l] :
                 l \in IF h.heap = "ok" THEN whole
                       ELSE UNION {{SubSeq(w, 1, k) : k \in 0..Len(w)} : w \in whole}}

\* ini.close().  On a damaged heap the process can go down when, after the
\* write, sections.clear() destroys a string whose buffer is not its own;
\* with a broken vector it goes down in write, or in sections.clear()
Close ==
    /\ pc = "open"
    /\ IF Broken(ini) # {}
       THEN /\ disk' \in DyingWrites(ini, disk)
            /\ ini' = ini
            /\ op' = [op EXCEPT !.name = "close", !.arg = <<>>, !.ret = ini.changed]
            /\ pc' = "crashed"
       ELSE \E killed \in IF ini.heap = "damaged" THEN BOOLEAN ELSE {FALSE} :
              LET c == close(ini, disk)
              IN  /\ ini' = IF killed THEN ini ELSE c.ini
                  /\ disk' = c.disk
                  /\ op' = [op EXCEPT !.name = "close", !.arg = <<>>, !.ret = c.wrote]
                  /\ pc' = IF killed THEN "crashed" ELSE "done"
    /\ before' = Snapshot
    /\ UNCHANGED <<rec, mutated, env>>

Next ==
    \/ Open
    \/ \E section \in SectionNames : SetSection(section)
    \/ \E key \in Keys : GetValue(key)
    \/ \E section \in SectionNames : AddSection(section)
    \/ \E key \in Keys, value \in Values : AddValue(key, value)
    \/ \E key \in Keys : RemoveValue(key)
    \/ \E key \in Keys : ReadInt(key)
    \/ \E key \in Keys : ReadDouble(key)
    \/ \E key \in Keys : ReadBool(key)
    \/ \E key \in Keys : ReadChar(key)
    \/ \E key \in Keys : ReadTime(key)
    \/ \E key \in Keys : ReadColor(key)
    \/ \E key \in Keys : ReadC64Model(key)
    \/ \E key \in Keys : ReadString(key)
    \/ Undefined
    \/ Close

Spec == Init /\ [][Next]_vars

(***************************************************************************)
(* The document store over more calls: the files in which a section A is   *)
(* followed by at most one key line, and MaxCalls calls between open and   *)
(* close, which is what it takes to empty a section, to erase end() in it  *)
(* and to use the section again.                                           *)
(***************************************************************************)
MaxCalls == 4

InitRemove ==
    /\ disk \in [exists : {TRUE}, readable : {TRUE}, writable : BOOLEAN,
                 lines : {<<L_A>>, <<L_A, L_k1>>, <<L_A, L_k0>>}, bad : {{}}]
    /\ ini = NewHandler
    /\ pc = "closed"
    /\ op = [NoOp EXCEPT !.max = MaxCalls]
    /\ before = [ini |-> NewHandler, rec |-> Defaults, disk |-> disk]
    /\ rec = Defaults
    /\ mutated = FALSE
    /\ env = HostEnv

SpecRemove == InitRemove /\ [][Next]_vars

(***************************************************************************)
(* Claims about the document store and the typed readers (Spec,           *)
(* SpecRemove).                                                            *)
(***************************************************************************)
TypedReaders == {"readInt", "readDouble", "readBool", "readChar", "readTime",
                 "readColor", "readEnum"}
Readers == TypedReaders \cup {"readString"}

\* the entries of the section selected in handler h
CurKeys(h) == h.sections[h.curSection].second

\* no entry of the selected section has this key
Absent(h, key) == \A i \in 1..Len(CurKeys(h)) : CurKeys(h)[i][1] # key

\* the first entry of the selected section with this key has an empty value
PresentEmpty(h, key) ==
    \E i \in 1..Len(CurKeys(h)) :
        /\ CurKeys(h)[i] = <<key, <<>>>>
        /\ \A j \in 1..(i - 1) : CurKeys(h)[j][1] # key

\* C1: between a load and close(), the dirty flag is set exactly when an
\* addSection, addValue or removeValue ran; setSection and getValue leave it
\* alone; close() calls write exactly when the flag is set, which replaces the
\* file's lines by the serialized document (when the path can be opened for
\* writing) and otherwise leaves the file alone; after close() has returned
\* the flag is false and the section list is empty.  It holds as long as no
\* vector is broken; SpecRemove reaches a close() on a broken vector, which
\* leaves the head of the document in the file and does not return.
C1_CloseRewritesIffMutated ==
    /\ pc = "open" => ini.changed = mutated
    /\ op.name \in {"setSection", "getValue"} => ini.changed = before.ini.changed
    /\ op.name = "close" =>
         /\ op.ret = mutated
         /\ disk = IF mutated /\ before.disk.writable
                  THEN [before.disk EXCEPT !.lines = WriteSections(before.ini.sections)]
                  ELSE before.disk
         /\ pc = "done" => (ini.changed = FALSE /\ ini.sections = <<>>)

\* C2: a read of a key that is absent from the selected section appends the
\* one entry (key, "") at the end of that section, sets the dirty flag, leaves
\* every other entry and section as it was, and (for the typed readers) leaves
\* the target field as it was.  It holds as long as the vector of the section
\* is not broken; in SpecRemove a read in a section with a broken vector
\* leaves the section without the key, or under the name of the key.
C2_MissingKeyInserted ==
    (pc = "open" /\ op.name \in Readers /\ Selected(before.ini)
        /\ Absent(before.ini, op.arg)) =>
        /\ ini.sections =
             [before.ini.sections EXCEPT ![before.ini.curSection].second =
                                            Append(@, <<op.arg, <<>>>>)]
        /\ ini.curSection = before.ini.curSection
        /\ ini.changed = TRUE
        /\ op.name \in TypedReaders => rec = before.rec

\* C3: a typed read of a key whose value in the selected section is empty
\* leaves the target field, the document and the dirty flag as they were.
C3_EmptyValueNoOp ==
    (pc = "open" /\ op.name \in TypedReaders /\ Selected(before.ini)
        /\ PresentEmpty(before.ini, op.arg)) =>
        /\ rec = before.rec
        /\ ini = before.ini

\* a typed read of a key with an empty value, on a clean document
C3_Witness ==
    /\ pc = "open" /\ op.name = "readBool" /\ Selected(before.ini)
    /\ PresentEmpty(before.ini, op.arg)
    /\ ~before.ini.changed

\* C6: removeValue(key) on a selected section removes every entry with that
\* key, keeps the others in their order, and getValue(key) then finds nothing
\* (stated for a key the section holds once or several times: with no such
\* entry the call erases end(), which is undefined).
C6_RemoveValueRemovesAll ==
    (op.name = "removeValue" /\ Selected(before.ini) /\ ~Absent(before.ini, op.arg)) =>
        LET Other(e) == e[1] # op.arg
        IN  /\ pc = "open"
            /\ ini.sections =
                 [before.ini.sections EXCEPT ![before.ini.curSection].second =
                                                SelectSeq(@, Other)]
            /\ getValue(ini, op.arg).null

(***************************************************************************)
(* The parser and the serializer on arbitrary files: every file of at most *)
(* MaxLines lines of at most MaxLineLen characters is opened, its key      *)
(* lines are parsed, it is written back and parsed again.                  *)
(***************************************************************************)
Alphabet == {"a", " ", "=", ";", "#", "[", "]"}
AllLines == SeqsUpTo(Alphabet, MaxLineLen)

InitParse ==
    /\ disk \in [exists : {TRUE}, readable : {TRUE}, writable : {TRUE},
                 lines : SeqsUpTo(AllLines, MaxLines), bad : {{}}]
    /\ ini = NewHandler
    /\ pc = "closed"
    /\ op = NoOp
    /\ before = [ini |-> NewHandler, rec |-> Defaults, disk |-> disk]
    /\ rec = Defaults
    /\ mutated = FALSE
    /\ env = HostEnv

\* line i of the file reaches the default branch of tryOpen's switch with a
\* section open, and holds an '='
IsKeyLine(lines, i) ==
    /\ lines[i] # <<>>
    /\ lines[i][1] \notin {";", "#", "["}
    /\ ParseLines(<<>>, SubSeq(lines, 1, i - 1)) # <<>>
    /\ Find(lines[i], "=", 0) # npos

\* the call parseKey(buffer) that tryOpen makes for a key line
ParseKeyLine ==
    /\ pc = "open"
    /\ op.name = "open"
    /\ \E i \in 1..Len(disk.lines) :
         /\ IsKeyLine(disk.lines, i)
         /\ op' = Did("parseKey", disk.lines[i], parseKey(disk.lines[i]))
    /\ UNCHANGED <<disk, ini, pc, before, rec, mutated, env>>

\* ini.write(path), with no mutation since the file was parsed
WriteBack ==
    /\ pc = "open"
    /\ ~mutated
    /\ disk' = write(ini, disk)
    /\ pc' = "written"
    /\ op' = Did("write", <<>>, disk.writable)
    /\ before' = Snapshot
    /\ UNCHANGED <<ini, rec, mutated, env>>

\* a new handler parses the file that was written
Reparse ==
    /\ pc = "written"
    /\ ini' = tryOpen(NewHandler, disk).ini
    /\ pc' = "reparsed"
    /\ op' = Did("tryOpen", <<>>, TRUE)
    /\ UNCHANGED <<disk, before, rec, mutated, env>>

NextParse == Open \/ ParseKeyLine \/ WriteBack \/ Reparse

SpecParse == InitParse /\ [][NextParse]_vars

(***************************************************************************)
(* Claims about the parser and the serializer (SpecParse).                 *)
(***************************************************************************)
RECURSIVE TrimRight(_)
TrimRight(s) ==
    IF s # <<>> /\ s[Len(s)] = " " THEN TrimRight(SubSeq(s, 1, Len(s) - 1)) ELSE s

RECURSIVE TrimLeft(_)
TrimLeft(s) ==
    IF s # <<>> /\ s[1] = " " THEN TrimLeft(Tail(s)) ELSE s

\* every entry of the document is a key/value pair with a key, or a comment
IsEntry(e) == e[1] # <<>> \/ (e[2] # <<>> /\ e[2][1] \in {";", "#"})

\* C4: a file that is parsed, written back with no mutation in between and
\* parsed again gives the document of the first parse.
C4_RoundTrip ==
    pc = "reparsed" => ini.sections = before.ini.sections

\* C7: for a key line, the key is the text before the first '=' without its
\* trailing spaces, and the value is the text after it without its leading
\* spaces, wherever the first '=' stands.
C7_ParseKeySplitsAtFirstEquals ==
    op.name = "parseKey" =>
        LET pos == Find(op.arg, "=", 0)
        IN  /\ op.ret.ok
            /\ op.ret.val[1] = TrimRight(SubSeq(op.arg, 1, pos))
            /\ op.ret.val[2] = TrimLeft(SubSeq(op.arg, pos + 2, Len(op.arg)))

\* C8: every entry of a parsed document has a key, or is a comment line.
C8_EntriesAreKeysOrComments ==
    (pc = "open" /\ op.name = "open") =>
        \A i \in 1..Len(ini.sections) :
            \A j \in 1..Len(ini.sections[i].second) :
                IsEntry(ini.sections[i].second[j])

(***************************************************************************)
(* The time and character readers on arbitrary values: the file holds one  *)
(* section with the one key k, whose value is any string of the sets       *)
(* below; the caller opens it, selects the section and reads the key.      *)
(***************************************************************************)
MaxTimeLen == 6
MaxCharLen == 4

TimeAlphabet == {"0", "1", "6", ":", ".", "-"}
CharAlphabet == {"'", "A", "\t", "3", "2", "-"}

\* the examples of the specification and of the code's comments
TimeExamples ==
    {<<"1", ":", "3", "0", ".", "5", "0", "0">>,
     <<"9", "0">>,
     <<"9", "9", ":", "5", "9", ".", "9", "9", "9">>,
     <<"1", "0", "0", ":", "0", "0">>,
     <<"1", ":", "6", "0">>,
     <<"0", ":", "0", "0", ".", "-", "5">>,
     <<"1", ":", "3", "0", ".", "5", "0", "0", "0">>}

ValueStrings ==
    SeqsUpTo(TimeAlphabet, MaxTimeLen) \cup TimeExamples
        \cup SeqsUpTo(CharAlphabet, MaxCharLen)

InitValue ==
    /\ \E str \in ValueStrings :
         disk = [exists |-> TRUE, readable |-> TRUE, writable |-> TRUE,
                 lines |-> <<L_A, <<"k", "=">> \o str>>, bad |-> {}]
    /\ ini = NewHandler
    /\ pc = "closed"
    /\ op = NoOp
    /\ before = [ini |-> NewHandler, rec |-> Defaults, disk |-> disk]
    /\ rec = Defaults
    /\ mutated = FALSE
    /\ env = HostEnv

NextValue ==
    \/ Open
    \/ SetSection(<<"A">>)
    \/ ReadTime(<<"k">>)
    \/ ReadChar(<<"k">>)

SpecValue == InitValue /\ [][NextValue]_vars

(***************************************************************************)
(* Claims about the time and character readers (SpecValue).                *)
(***************************************************************************)
IsDigits(s) == s # <<>> /\ \A i \in 1..Len(s) : s[i] \in Digits

\* a bare integer literal
IsInteger(s) ==
    /\ s # <<>>
    /\ IsDigits(IF s[1] \in {"+", "-"} THEN Tail(s) ELSE s)

IntegerVal(s) ==
    IF s[1] = "-" THEN -DigitsVal(Tail(s))
    ELSE IF s[1] = "+" THEN DigitsVal(Tail(s))
    ELSE DigitsVal(s)

\* the parts of MM:SS[.mmm]: minutes before the first ':', then seconds up to
\* the first '.', then the fraction
TimeParts(s) ==
    LET sep == Find(s, ":", 0)
        rest == SubSeq(s, sep + 2, Len(s))
        dot == Find(rest, ".", 0)
    IN  [mm |-> SubSeq(s, 1, sep),
         ss |-> IF dot = npos THEN rest ELSE SubSeq(rest, 1, dot),
         frac |-> IF dot = npos THEN <<>> ELSE SubSeq(rest, dot + 2, Len(rest)),
         hasFrac |-> dot # npos]

IsMinSec(s) ==
    /\ Find(s, ":", 0) # npos
    /\ LET p == TimeParts(s)
       IN  /\ IsDigits(p.mm) /\ DigitsVal(p.mm) <= 99
           /\ IsDigits(p.ss) /\ DigitsVal(p.ss) <= 59
           /\ p.hasFrac => (IsDigits(p.frac) /\ Len(p.frac) \in {1, 2, 3})

MinSecVal(s) ==
    LET p == TimeParts(s)
        scale == IF Len(p.frac) = 1 THEN 100 ELSE IF Len(p.frac) = 2 THEN 10 ELSE 1
    IN  DigitsVal(p.mm) * 60000 + DigitsVal(p.ss) * 1000
            + (IF p.hasFrac THEN DigitsVal(p.frac) * scale ELSE 0)

\* the value the read found under its key
ValueRead == getValue(before.ini, op.arg).str

\* C9: readTime returns true only on a bare integer or on MM:SS[.mmm] with
\* minutes in 0..99, seconds in 0..59 and a fraction of one to three digits,
\* and then sets the field to the milliseconds; when it returns false the
\* field is as it was.
C9_ReadTimeFormat ==
    (pc = "open" /\ op.name = "readTime" /\ ~Absent(before.ini, op.arg)) =>
        IF op.ret
        THEN \/ IsInteger(ValueRead) /\ rec.recordLength = IntegerVal(ValueRead) * 1000
             \/ IsMinSec(ValueRead) /\ rec.recordLength = MinSecVal(ValueRead)
        ELSE rec = before.rec

\* the quoted literal 'c': three characters, a quote, c, a quote
IsQuotedChar(s) == Len(s) = 3 /\ s[1] = "'" /\ s[3] = "'"

\* C10: a quoted value that is not exactly 'c' (empty, several characters,
\* text after the closing quote) leaves the character field as it was.
C10_ReadCharForms ==
    (/\ pc = "open" /\ op.name = "readChar" /\ ~Absent(before.ini, op.arg)
     /\ ValueRead # <<>> /\ ValueRead[1] = "'" /\ ~IsQuotedChar(ValueRead))
        => rec.ch = before.rec.ch

(***************************************************************************)
(* IniConfig: the settings record and the four groups.                     *)
(***************************************************************************)
\* the names of the sections and of the keys, spelled out
N ==
    [SIDPlayfp |-> <<"S", "I", "D", "P", "l", "a", "y", "f", "p">>,
     Console |-> <<"C", "o", "n", "s", "o", "l", "e">>,
     Audio |-> <<"A", "u", "d", "i", "o">>,
     Emulation |-> <<"E", "m", "u", "l", "a", "t", "i", "o", "n">>]

K ==
    [Version |-> <<"V", "e", "r", "s", "i", "o", "n">>,
     SonglengthDatabase |-> <<"S", "o", "n", "g", "l", "e", "n", "g", "t", "h", " ", "D", "a", "t", "a", "b", "a", "s", "e">>,
     DefaultPlayLength |-> <<"D", "e", "f", "a", "u", "l", "t", " ", "P", "l", "a", "y", " ", "L", "e", "n", "g", "t", "h">>,
     DefaultRecordLength |-> <<"D", "e", "f", "a", "u", "l", "t", " ", "R", "e", "c", "o", "r", "d", " ", "L", "e", "n", "g", "t", "h">>,
     KernalRom |-> <<"K", "e", "r", "n", "a", "l", " ", "R", "o", "m">>,
     BasicRom |-> <<"B", "a", "s", "i", "c", " ", "R", "o", "m">>,
     ChargenRom |-> <<"C", "h", "a", "r", "g", "e", "n", " ", "R", "o", "m">>,
     VerboseLevel |-> <<"V", "e", "r", "b", "o", "s", "e", "L", "e", "v", "e", "l">>,
     ASCII |-> <<"A", "S", "C", "I", "I">>,
     Ansi |-> <<"A", "n", "s", "i">>,
     ColorDecorations |-> <<"C", "o", "l", "o", "r", " ", "D", "e", "c", "o", "r", "a", "t", "i", "o", "n", "s">>,
     ColorTitle |-> <<"C", "o", "l", "o", "r", " ", "T", "i", "t", "l", "e">>,
     ColorLabelCore |-> <<"C", "o", "l", "o", "r", " ", "L", "a", "b", "e", "l", " ", "C", "o", "r", "e">>,
     ColorTextCore |-> <<"C", "o", "l", "o", "r", " ", "T", "e", "x", "t", " ", "C", "o", "r", "e">>,
     ColorLabelExtra |-> <<"C", "o", "l", "o", "r", " ", "L", "a", "b", "e", "l", " ", "E", "x", "t", "r", "a">>,
     ColorTextExtra |-> <<"C", "o", "l", "o", "r", " ", "T", "e", "x", "t", " ", "E", "x", "t", "r", "a">>,
     ColorNotes |-> <<"C", "o", "l", "o", "r", " ", "N", "o", "t", "e", "s">>,
     ColorControlOn |-> <<"C", "o", "l", "o", "r", " ", "C", "o", "n", "t", "r", "o", "l", " ", "O", "n">>,
     ColorControlOff |-> <<"C", "o", "l", "o", "r", " ", "C", "o", "n", "t", "r", "o", "l", " ", "O", "f", "f">>,
     Frequency |-> <<"F", "r", "e", "q", "u", "e", "n", "c", "y">>,
     Channels |-> <<"C", "h", "a", "n", "n", "e", "l", "s">>,
     BitsPerSample |-> <<"B", "i", "t", "s", "P", "e", "r", "S", "a", "m", "p", "l", "e">>,
     BufferLength |-> <<"B", "u", "f", "f", "e", "r", "L", "e", "n", "g", "t", "h">>,
     Engine |-> <<"E", "n", "g", "i", "n", "e">>,
     C64Model |-> <<"C", "6", "4", "M", "o", "d", "e", "l">>,
     ForceC64Model |-> <<"F", "o", "r", "c", "e", "C", "6", "4", "M", "o", "d", "e", "l">>,
     DigiBoost |-> <<"D", "i", "g", "i", "B", "o", "o", "s", "t">>,
     CiaModel |-> <<"C", "i", "a", "M", "o", "d", "e", "l">>,
     SidModel |-> <<"S", "i", "d", "M", "o", "d", "e", "l">>,
     ForceSidModel |-> <<"F", "o", "r", "c", "e", "S", "i", "d", "M", "o", "d", "e", "l">>,
     UseFilter |-> <<"U", "s", "e", "F", "i", "l", "t", "e", "r">>,
     FilterBias |-> <<"F", "i", "l", "t", "e", "r", "B", "i", "a", "s">>,
     FilterCurve6581 |-> <<"F", "i", "l", "t", "e", "r", "C", "u", "r", "v", "e", "6", "5", "8", "1">>,
     FilterRange6581 |-> <<"F", "i", "l", "t", "e", "r", "R", "a", "n", "g", "e", "6", "5", "8", "1">>,
     FilterCurve8580 |-> <<"F", "i", "l", "t", "e", "r", "C", "u", "r", "v", "e", "8", "5", "8", "0">>,
     CombinedWaveforms |-> <<"C", "o", "m", "b", "i", "n", "e", "d", "W", "a", "v", "e", "f", "o", "r", "m", "s">>,
     PowerOnDelay |-> <<"P", "o", "w", "e", "r", "O", "n", "D", "e", "l", "a", "y">>,
     Sampling |-> <<"S", "a", "m", "p", "l", "i", "n", "g">>,
     ResidFastSampling |-> <<"R", "e", "s", "i", "d", "F", "a", "s", "t", "S", "a", "m", "p", "l", "i", "n", "g">>,
     filterRange6581 |-> <<"f", "i", "l", "t", "e", "r", "R", "a", "n", "g", "e", "6", "5", "8", "1">>]

\* the enumerated values, spelled out
E ==
    [PAL |-> <<"P", "A", "L">>,
     NTSC |-> <<"N", "T", "S", "C">>,
     OLD_NTSC |-> <<"O", "L", "D", "_", "N", "T", "S", "C">>,
     DREAN |-> <<"D", "R", "E", "A", "N">>,
     MOS6526 |-> <<"M", "O", "S", "6", "5", "2", "6">>,
     MOS8521 |-> <<"M", "O", "S", "8", "5", "2", "1">>,
     MOS6581 |-> <<"M", "O", "S", "6", "5", "8", "1">>,
     MOS8580 |-> <<"M", "O", "S", "8", "5", "8", "0">>,
     AVERAGE |-> <<"A", "V", "E", "R", "A", "G", "E">>,
     WEAK |-> <<"W", "E", "A", "K">>,
     STRONG |-> <<"S", "T", "R", "O", "N", "G">>,
     INTERPOLATE |-> <<"I", "N", "T", "E", "R", "P", "O", "L", "A", "T", "E">>,
     RESAMPLE |-> <<"R", "E", "S", "A", "M", "P", "L", "E">>]

KnownKeys ==
    [SIDPlayfp |->
        <<[key |-> K.Version, type |-> "int"],
          [key |-> K.SonglengthDatabase, type |-> "string"],
          [key |-> K.DefaultPlayLength, type |-> "time"],
          [key |-> K.DefaultRecordLength, type |-> "time"],
          [key |-> K.KernalRom, type |-> "string"],
          [key |-> K.BasicRom, type |-> "string"],
          [key |-> K.ChargenRom, type |-> "string"],
          [key |-> K.VerboseLevel, type |-> "int"]>>,
     Console |->
        <<[key |-> K.ASCII, type |-> "bool"],
          [key |-> K.Ansi, type |-> "bool"],
          [key |-> K.ColorDecorations, type |-> "color"],
          [key |-> K.ColorTitle, type |-> "color"],
          [key |-> K.ColorLabelCore, type |-> "color"],
          [key |-> K.ColorTextCore, type |-> "color"],
          [key |-> K.ColorLabelExtra, type |-> "color"],
          [key |-> K.ColorTextExtra, type |-> "color"],
          [key |-> K.ColorNotes, type |-> "color"],
          [key |-> K.ColorControlOn, type |-> "color"],
          [key |-> K.ColorControlOff, type |-> "color"]>>,
     Audio |->
        <<[key |-> K.Frequency, type |-> "int"],
          [key |-> K.Channels, type |-> "int"],
          [key |-> K.BitsPerSample, type |-> "int"],
          [key |-> K.BufferLength, type |-> "int"]>>,
     Emulation |->
        <<[key |-> K.Engine, type |-> "string"],
          [key |-> K.C64Model, type |-> "enum"],
          [key |-> K.ForceC64Model, type |-> "bool"],
          [key |-> K.DigiBoost, type |-> "bool"],
          [key |-> K.CiaModel, type |-> "enum"],
          [key |-> K.SidModel, type |-> "enum"],
          [key |-> K.ForceSidModel, type |-> "bool"],
          [key |-> K.UseFilter, type |-> "bool"],
          [key |-> K.FilterBias, type |-> "double"],
          [key |-> K.FilterCurve6581, type |-> "double"],
          [key |-> K.FilterRange6581, type |-> "double"],
          [key |-> K.FilterCurve8580, type |-> "double"],
          [key |-> K.CombinedWaveforms, type |-> "enum"],
          [key |-> K.PowerOnDelay, type |-> "int"],
          [key |-> K.Sampling, type |-> "enum"],
          [key |-> K.ResidFastSampling, type |-> "bool"]>>]

\* the border glyphs: the box drawing characters clear() sets, and ASCII
BoxGlyphs ==
    [topLeft |-> "BOX_DOWN_RIGHT", topRight |-> "BOX_DOWN_LEFT",
     bottomLeft |-> "BOX_UP_RIGHT", bottomRight |-> "BOX_UP_LEFT",
     vertical |-> "BOX_VERTICAL", horizontal |-> "BOX_HORIZONTAL",
     junctionLeft |-> "BOX_VERTICAL_LEFT", junctionRight |-> "BOX_VERTICAL_RIGHT"]

AsciiGlyphs ==
    [topLeft |-> "+", topRight |-> "+", bottomLeft |-> "+", bottomRight |-> "+",
     vertical |-> "|", horizontal |-> "-", junctionLeft |-> "+", junctionRight |-> "+"]

\* IniConfig::clear: every field but digiboost is assigned (colors are their
\* index in colorStrings, doubles are decimal fractions; filterRange6581 and
\* combinedWaveformsStrength are there in the builds that have them)
clear(s) ==
    [version |-> 1, database |-> <<>>, playLength |-> 0, recordLength |-> (3 * 60 + 30) * 1000,
     kernalRom |-> <<>>, basicRom |-> <<>>, chargenRom |-> <<>>, verboseLevel |-> 0,
     ansi |-> FALSE, glyphs |-> BoxGlyphs,
     decorations |-> 15, title |-> 7, label_core |-> 10, text_core |-> 11,
     label_extra |-> 13, text_extra |-> 14, notes |-> 12, control_on |-> 10,
     control_off |-> 9,
     frequency |-> 44100, channels |-> 0, precision |-> 16, bufLength |-> 250,
     modelDefault |-> "PAL", modelForced |-> FALSE, sidModel |-> "MOS6581",
     forceModel |-> FALSE, ciaModel |-> "MOS6526", filter |-> TRUE, engine |-> <<>>,
     bias |-> <<5, 1>>, filterCurve6581 |-> <<5, 1>>, filterRange6581 |-> <<5, 1>>,
     filterCurve8580 |-> <<5, 1>>, combinedWaveformsStrength |-> "AVERAGE",
     powerOnDelay |-> -1, samplingMethod |-> "RESAMPLE_INTERPOLATE",
     fastSampling |-> FALSE,
     digiboost |-> s.digiboost]

\* if (!ini.setSection(name)) ini.addSection(name);
SelectOrAdd(h, name) ==
    LET r == setSection(h, name)
    IN  IF r.ret THEN r.ini ELSE addSection(r.ini, name)

\* what utils::getDataPath() returns on a host where it returns: the value of
\* XDG_DATA_HOME, here "/d"
DataPath == <<"/", "d">>

\* the default song length database: getDataPath(), SEPARATOR, DIR_NAME,
\* SEPARATOR, "Songlengths.txt"
DefaultDatabase ==
    DataPath \o <<"/", "s", "i", "d", "p", "l", "a", "y", "f", "p">>
             \o <<"/", "S", "o", "n", "g", "l", "e", "n", "g", "t", "h", "s", ".", "t", "x", "t">>

\* the backward compatibility block of readEmulation (FEAT_FILTER_RANGE): a
\* filterRange6581 with a value is added as FilterRange6581 and removed
RenameFilterRange(h, mv) ==
    LET value == getValue(h, K.filterRange6581)
    IN  IF ~value.null /\ value.str # <<>>
        THEN removeValue(addValue(h, K.FilterRange6581, value.str),
                         K.filterRange6581, mv, "crash").ini
        ELSE h

\* an enumerated string: the value names[i] sets the field to values[i], any
\* other leaves it
Enumerated(str, names, values, old) ==
    LET S == {i \in 1..Len(names) : names[i] = str}
    IN  IF S = {} THEN old ELSE values[Min(S)]

(***************************************************************************)
(* IniConfig::read, cycle after cycle on one configuration file.           *)
(***************************************************************************)
\* the number of read() calls followed
MaxCycles == 2

\* the four groups in the order read() populates them
GroupNames == <<"SIDPlayfp", "Console", "Audio", "Emulation">>

\* the keys the populate step looks up with readKey or readString in a build,
\* in the order of the calls
KeysRead(e, g) ==
    SelectSeq(KnownKeys[g],
              LAMBDA k : /\ (k.key = K.FilterRange6581 => e.filterRange)
                         /\ (k.key = K.CombinedWaveforms => e.cwStrength))

\* values a configuration file gives to a key of each type
GoodValue(k) ==
    CASE k.type = "int" -> <<"1">>
      [] k.type = "double" -> <<"0", ".", "3">>
      [] k.type = "bool" -> <<"t", "r", "u", "e">>
      [] k.type = "time" -> <<"1", ":", "3", "0">>
      [] k.type = "color" -> colorStrings[2]
      [] k.type = "string" -> <<"/", "a">>
      [] k.key = K.C64Model -> E.NTSC
      [] k.key = K.CiaModel -> E.MOS8521
      [] k.key = K.SidModel -> E.MOS8580
      [] k.key = K.CombinedWaveforms -> E.WEAK
      [] OTHER -> E.INTERPOLATE

OtherValues(k) ==
    CASE k.type = "int" -> {<<>>, <<"x">>}
      [] k.type = "double" -> {<<>>, <<"x">>}
      [] k.type = "bool" -> {<<>>, <<"f", "a", "l", "s", "e">>, <<"x">>}
      [] k.type = "time" -> {<<>>, <<"9", "0">>, <<"1", ":", "6", "0">>}
      [] k.type = "color" -> {<<>>, <<"R", "E", "D">>}
      [] k.type = "string" -> {<<>>}
      [] OTHER -> {<<>>, <<"F", "O", "O">>}

\* the section of a group with every key of the group, each with its good
\* value or with none
GroupSection(g, good) ==
    [first |-> N[g],
     second |-> [i \in 1..Len(KnownKeys[g]) |->
                   <<KnownKeys[g][i].key,
                     IF good THEN GoodValue(KnownKeys[g][i]) ELSE <<>>>>]]

FullDocument(good) == [n \in 1..4 |-> GroupSection(GroupNames[n], good)]

Remove(seq, i) == SubSeq(seq, 1, i - 1) \o SubSeq(seq, i + 1, Len(seq))

GoodDocument == FullDocument(TRUE)

\* the legacy entries a file written by an older release has
LegacyEntries ==
    {<< <<K.filterRange6581, <<"0", ".", "7">>>> >>,
     << <<K.filterRange6581, <<>>>> >>,
     << <<K.filterRange6581, <<"0", ".", "7">>>>, <<K.filterRange6581, <<"0", ".", "2">>>> >>}

\* the legacy entry three times, for the end of the section
LegacyTail ==
    << <<K.filterRange6581, <<"0", ".", "7">>>>,
       <<K.filterRange6581, <<"0", ".", "2">>>>,
       <<K.filterRange6581, <<"0", ".", "3">>>> >>

\* the place of every key in GoodDocument: <<section, entry>>
KeyPositions ==
    UNION {{<<n, i>> : i \in 1..Len(KnownKeys[GroupNames[n]])} : n \in 1..4}

KeyAt(p) == KnownKeys[GroupNames[p[1]]][p[2]]

\* a value the reader of a key of the type cannot convert
BadValue(k) == IF k.type = "time" THEN <<"1", ":", "6", "0">> ELSE <<"x">>

\* the places of the keys read through readInt, readDouble, readBool or
\* readTime, and the places read after a place
CoercedPositions ==
    {p \in KeyPositions : KeyAt(p).type \in {"int", "double", "bool", "time"}}

Later(p) == {q \in KeyPositions : q[1] > p[1] \/ (q[1] = p[1] /\ q[2] > p[2])}

\* every key with a value, one of them with a value that cannot be
\* converted, and a key that is read later missing
BadAndMissing ==
    UNION {{[[GoodDocument EXCEPT ![p[1]].second[p[2]][2] = BadValue(KeyAt(p))]
                EXCEPT ![q[1]].second = Remove(@, q[2])] : q \in Later(p)} :
             p \in CoercedPositions}

\* the documents the configuration file starts from: nothing, every key
\* with no value, every key with a value, and the latter with one value
\* changed, one key or one section missing, or legacy entries in Emulation
Documents ==
    {<<>>, FullDocument(FALSE), GoodDocument}
    \cup UNION {{[GoodDocument EXCEPT ![p[1]].second[p[2]][2] = v] : v \in OtherValues(KeyAt(p))} :
                  p \in KeyPositions}
    \cup {[GoodDocument EXCEPT ![p[1]].second = Remove(@, p[2])] : p \in KeyPositions}
    \cup {Remove(GoodDocument, n) : n \in 1..4}
    \cup {[GoodDocument EXCEPT ![4].second = l \o @] : l \in LegacyEntries}
    \cup {[GoodDocument EXCEPT ![4].second = @ \o LegacyTail]}
    \cup BadAndMissing

\* the builds and hosts followed
Environments ==
    {[filterRange |-> TRUE, cwStrength |-> TRUE, dataPath |-> TRUE, songlengths |-> FALSE,
      configPath |-> TRUE],
     [filterRange |-> FALSE, cwStrength |-> FALSE, dataPath |-> TRUE, songlengths |-> TRUE,
      configPath |-> TRUE],
     [filterRange |-> TRUE, cwStrength |-> FALSE, dataPath |-> TRUE, songlengths |-> FALSE,
      configPath |-> FALSE],
     [filterRange |-> TRUE, cwStrength |-> TRUE, dataPath |-> FALSE, songlengths |-> FALSE,
      configPath |-> TRUE]}

\* after IniConfig's constructor, which calls clear(): digiboost holds
\* whatever the memory of the object held
InitRead ==
    /\ \/ \E doc \in Documents, w \in BOOLEAN :
            disk = [exists |-> TRUE, readable |-> TRUE, writable |-> w,
                    lines |-> WriteSections(doc), bad |-> {}]
       \/ \E w \in BOOLEAN :
            disk = [exists |-> FALSE, readable |-> FALSE, writable |-> w, lines |-> <<>>,
                    bad |-> {}]
    /\ ini = NewHandler
    /\ pc = "closed"
    /\ op = NoOp
    /\ \E garbage \in BOOLEAN : rec = clear([digiboost |-> garbage])
    /\ before = [ini |-> NewHandler, rec |-> rec, disk |-> disk, sameFile |-> FALSE]
    /\ mutated = FALSE
    /\ env \in Environments

\* IniConfig::read on a build that is not for Windows (tryOpen(ini) returns
\* false), up to the first group: clear, getConfigPath, open.  before is the
\* document as parsed, the record and the file the call started with, and
\* whether the previous call started with the same file
ReadOpen ==
    /\ pc \in {"closed", "done", "failed"}
    /\ op.n < MaxCycles
    /\ rec' = clear(rec)
    /\ \E o \in {IF env.configPath THEN open(NewHandler, disk)
                 ELSE [ini |-> NewHandler, disk |-> disk, ret |-> FALSE]} :
         /\ ini' = o.ini
         /\ disk' = o.disk
         /\ pc' = IF o.ret THEN "sidplay2" ELSE "failed"
         /\ op' = Did("open", <<>>, o.ret)
         /\ before' = [ini |-> o.ini, rec |-> rec, disk |-> disk,
                       sameFile |-> op.n > 0 /\ disk = before.disk]
    /\ mutated' = FALSE
    /\ UNCHANGED env

\* a group has run
Populated(name, next, h) ==
    /\ ini' = h
    /\ pc' = next
    /\ op' = [op EXCEPT !.name = name]
    /\ mutated' = (mutated \/ h.sections # ini.sections)
    /\ UNCHANGED <<disk, before, env>>

\* IniConfig::readSidplay2.  With no song length database in the file it calls
\* utils::getDataPath(), which throws utils::error when neither XDG_DATA_HOME
\* nor HOME is set; read() catches iniError only and no caller in the
\* repository's code handles utils::error, so std::terminate ends the process:
\* the stack is not unwound, ~iniHandler does not run and the file stays as
\* open() left it
ReadSidplay2 ==
    /\ pc = "sidplay2"
    /\ \E h \in {SelectOrAdd(ini, N.SIDPlayfp)} :
       \E version \in {readInt(h, K.Version, rec.version)} :
       \E database \in {readString(version.ini, K.SonglengthDatabase)} :
       IF database.str = <<>> /\ ~env.dataPath
       THEN /\ rec' = [rec EXCEPT
                         !.version = IF version.result > 0 THEN version.result ELSE @,
                         !.database = <<>>]
            /\ ini' = database.ini
            /\ pc' = "terminated"
            /\ op' = [op EXCEPT !.name = "threw", !.ret = FALSE]
            /\ mutated' = (mutated \/ database.ini.sections # ini.sections)
            /\ UNCHANGED <<disk, before, env>>
       ELSE
       \E play \in {readTime(database.ini, K.DefaultPlayLength, rec.playLength)} :
       \E record \in {readTime(play.ini, K.DefaultRecordLength, rec.recordLength)} :
       \E kernal \in {readString(record.ini, K.KernalRom)} :
       \E basic \in {readString(kernal.ini, K.BasicRom)} :
       \E chargen \in {readString(basic.ini, K.ChargenRom)} :
       \E verbose \in {readInt(chargen.ini, K.VerboseLevel, rec.verboseLevel)} :
         /\ rec' = [rec EXCEPT
                      !.version = IF version.result > 0 THEN version.result ELSE @,
                      !.database = IF database.str # <<>> THEN database.str
                                   ELSE IF env.songlengths THEN DefaultDatabase ELSE <<>>,
                      !.playLength = IF play.ret THEN play.value ELSE @,
                      !.recordLength = IF record.ret THEN record.value ELSE @,
                      !.kernalRom = kernal.str,
                      !.basicRom = basic.str,
                      !.chargenRom = chargen.str,
                      !.verboseLevel = verbose.result]
         /\ Populated("sidplay2", "console", verbose.ini)

\* IniConfig::readConsole; ascii is a local bool that is not initialised:
\* garbage is what it holds when readBool is called
ReadConsole ==
    /\ pc = "console"
    /\ \E garbage \in BOOLEAN :
       \E h \in {SelectOrAdd(ini, N.Console)} :
       \E ascii \in {readBool(h, K.ASCII, garbage)} :
       \E ansi \in {readBool(ascii.ini, K.Ansi, rec.ansi)} :
       \E c1 \in {readColor(ansi.ini, K.ColorDecorations, rec.decorations)} :
       \E c2 \in {readColor(c1.ini, K.ColorTitle, rec.title)} :
       \E c3 \in {readColor(c2.ini, K.ColorLabelCore, rec.label_core)} :
       \E c4 \in {readColor(c3.ini, K.ColorTextCore, rec.text_core)} :
       \E c5 \in {readColor(c4.ini, K.ColorLabelExtra, rec.label_extra)} :
       \E c6 \in {readColor(c5.ini, K.ColorTextExtra, rec.text_extra)} :
       \E c7 \in {readColor(c6.ini, K.ColorNotes, rec.notes)} :
       \E c8 \in {readColor(c7.ini, K.ColorControlOn, rec.control_on)} :
       \E c9 \in {readColor(c8.ini, K.ColorControlOff, rec.control_off)} :
         /\ rec' = [rec EXCEPT
                      !.glyphs = IF ascii.result THEN AsciiGlyphs ELSE @,
                      !.ansi = ansi.result,
                      !.decorations = c1.ch, !.title = c2.ch, !.label_core = c3.ch,
                      !.text_core = c4.ch, !.label_extra = c5.ch, !.text_extra = c6.ch,
                      !.notes = c7.ch, !.control_on = c8.ch, !.control_off = c9.ch]
         /\ Populated("console", "audio", c9.ini)

\* IniConfig::readAudio
ReadAudio ==
    /\ pc = "audio"
    /\ \E h \in {SelectOrAdd(ini, N.Audio)} :
       \E frequency \in {readInt(h, K.Frequency, rec.frequency)} :
       \E channels \in {readInt(frequency.ini, K.Channels, rec.channels)} :
       \E precision \in {readInt(channels.ini, K.BitsPerSample, rec.precision)} :
       \E bufLength \in {readInt(precision.ini, K.BufferLength, rec.bufLength)} :
         /\ rec' = [rec EXCEPT !.frequency = frequency.result,
                               !.channels = channels.result,
                               !.precision = precision.result,
                               !.bufLength = bufLength.result]
         /\ Populated("audio", "emulation", bufLength.ini)

\* IniConfig::readEmulation; mv is what the library leaves in an entry it has
\* moved from
ReadEmulation ==
    /\ pc = "emulation"
    /\ \E mv \in MovedFromOutcomes :
       \E h \in {SelectOrAdd(ini, N.Emulation)} :
       \E engine \in {readString(h, K.Engine)} :
       \E c64 \in {readString(engine.ini, K.C64Model)} :
       \E forceC64 \in {readBool(c64.ini, K.ForceC64Model, rec.modelForced)} :
       \E digi \in {readBool(forceC64.ini, K.DigiBoost, rec.digiboost)} :
       \E cia \in {readString(digi.ini, K.CiaModel)} :
       \E sid \in {readString(cia.ini, K.SidModel)} :
       \E forceSid \in {readBool(sid.ini, K.ForceSidModel, rec.forceModel)} :
       \E filter \in {readBool(forceSid.ini, K.UseFilter, rec.filter)} :
       \E bias \in {readDouble(filter.ini, K.FilterBias, rec.bias)} :
       \E curve6581 \in {readDouble(bias.ini, K.FilterCurve6581, rec.filterCurve6581)} :
       \E renamed \in {IF env.filterRange THEN RenameFilterRange(curve6581.ini, mv)
                       ELSE curve6581.ini} :
       \E range \in {IF env.filterRange
                     THEN readDouble(renamed, K.FilterRange6581, rec.filterRange6581)
                     ELSE [ini |-> renamed, result |-> rec.filterRange6581]} :
       \E curve8580 \in {readDouble(range.ini, K.FilterCurve8580, rec.filterCurve8580)} :
       \E cw \in {IF env.cwStrength THEN readString(curve8580.ini, K.CombinedWaveforms)
                  ELSE [ini |-> curve8580.ini, str |-> <<>>]} :
       \E power \in {readInt(cw.ini, K.PowerOnDelay, rec.powerOnDelay)} :
       \E sampling \in {readString(power.ini, K.Sampling)} :
       \E fast \in {readBool(sampling.ini, K.ResidFastSampling, rec.fastSampling)} :
         /\ rec' = [rec EXCEPT
                      !.engine = engine.str,
                      !.modelDefault =
                          Enumerated(c64.str, <<E.PAL, E.NTSC, E.OLD_NTSC, E.DREAN>>,
                                     <<"PAL", "NTSC", "OLD_NTSC", "DREAN">>, @),
                      !.modelForced = forceC64.result,
                      !.digiboost = digi.result,
                      !.ciaModel = Enumerated(cia.str, <<E.MOS6526, E.MOS8521>>,
                                              <<"MOS6526", "MOS8521">>, @),
                      !.sidModel = Enumerated(sid.str, <<E.MOS6581, E.MOS8580>>,
                                              <<"MOS6581", "MOS8580">>, @),
                      !.forceModel = forceSid.result,
                      !.filter = filter.result,
                      !.bias = bias.result,
                      !.filterCurve6581 = curve6581.result,
                      !.filterRange6581 = range.result,
                      !.filterCurve8580 = curve8580.result,
                      !.combinedWaveformsStrength =
                          Enumerated(cw.str, <<E.AVERAGE, E.WEAK, E.STRONG>>,
                                     <<"AVERAGE", "WEAK", "STRONG">>, @),
                      !.powerOnDelay = power.result,
                      !.samplingMethod =
                          Enumerated(sampling.str, <<E.INTERPOLATE, E.RESAMPLE>>,
                                     <<"INTERPOLATE", "RESAMPLE_INTERPOLATE">>, @),
                      !.fastSampling = fast.result]
         /\ Populated("emulation", "closing", fast.ini)

\* the end of IniConfig::read: ini.close().  op.arg is the handler as close()
\* found it, op.ret whether close() called write
ReadClose ==
    /\ pc = "closing"
    /\ \E c \in {close(ini, disk)} :
         /\ ini' = c.ini
         /\ disk' = c.disk
         /\ op' = [op EXCEPT !.name = "read", !.arg = ini, !.ret = c.wrote]
    /\ pc' = "done"
    /\ UNCHANGED <<before, rec, mutated, env>>

NextRead ==
    \/ ReadOpen
    \/ ReadSidplay2
    \/ ReadConsole
    \/ ReadAudio
    \/ ReadEmulation
    \/ ReadClose

SpecRead == InitRead /\ [][NextRead]_vars

\* the document has the four sections and, in the first section of each
\* name, every key the build reads
Complete(sections, e) ==
    \A n \in 1..4 :
        LET it == FindFirst(sections, N[GroupNames[n]])
        IN  /\ it # Len(sections) + 1
            /\ \A i \in 1..Len(KeysRead(e, GroupNames[n])) :
                 FindKey(sections[it].second, KeysRead(e, GroupNames[n])[i].key)
                     # Len(sections[it].second) + 1

\* C5: a read() cycle on a file that has every section and key the populate
\* step reads inserts nothing, leaves the dirty flag false, does not rewrite
\* the file, and gives the record the previous cycle on the same file gave
C5_Idempotence ==
    (op.name = "read" /\ pc = "done" /\ Complete(before.ini.sections, env))
        => /\ op.arg.sections = before.ini.sections
           /\ ~op.arg.changed
           /\ ~op.ret
           /\ disk = before.disk
           /\ (before.sameFile => rec = before.rec)

(***************************************************************************)
(* Claims about IniConfig::read (SpecRead).                                *)
(***************************************************************************)
\* a read() cycle has just ended with close()
CycleDone == pc = "done" /\ op.name = "read"

\* the document the file holds
OnDisk == ParseLines(<<>>, disk.lines)

\* the section of a group with the keys a build reads, in the order of the
\* calls, each with no value
FreshSection(e, g) ==
    [first |-> N[g],
     second |-> SubSeq([i \in 1..Len(KeysRead(e, g)) |-> <<KeysRead(e, g)[i].key, <<>>>>],
                       1, Len(KeysRead(e, g)))]

\* the keys section 6 of the specification lists for a group
ListedKeys(g) == SelectSeq(KnownKeys[g], LAMBDA k : k.key # K.FilterRange6581)

\* how many entries of a section have the key
Count(sec, key) == Cardinality({i \in 1..Len(sec.second) : sec.second[i][1] = key})

\* the first call of read(), on a file that had no line and can be written,
\* has ended: it returned after close(), or the process was terminated
FirstReadEnded ==
    /\ CycleDone \/ pc = "terminated"
    /\ op.n = 1
    /\ before.disk.lines = <<>>
    /\ before.disk.writable

\* C11: from an empty file, one call of IniConfig::read leaves the four
\* sections SIDPlayfp, Console, Audio, Emulation in the file, in that order,
\* each with every key section 6 lists for it, once and with no value
C11_ListedKeys ==
    FirstReadEnded =>
        /\ Len(OnDisk) = 4
        /\ \A n \in 1..4 :
             /\ OnDisk[n].first = N[GroupNames[n]]
             /\ \A i \in 1..Len(ListedKeys(GroupNames[n])) :
                  /\ Count(OnDisk[n], ListedKeys(GroupNames[n])[i].key) = 1
                  /\ \A j \in 1..Len(OnDisk[n].second) :
                       OnDisk[n].second[j][1] = ListedKeys(GroupNames[n])[i].key
                           => OnDisk[n].second[j][2] = <<>>

\* the first section of a group's name in a document (0 when there is none)
GroupAt(sections, g) ==
    LET it == FindFirst(sections, N[g])
    IN  IF it = Len(sections) + 1 THEN 0 ELSE it

\* the first entry of the key in a group's section: whether it is there and
\* the value it has
ValueIn(sections, g, key) ==
    LET n == GroupAt(sections, g)
        i == IF n = 0 THEN 1 ELSE FindKey(sections[n].second, key)
    IN  IF n = 0 \/ i = Len(sections[n].second) + 1
        THEN [there |-> FALSE, str |-> <<>>]
        ELSE [there |-> TRUE, str |-> sections[n].second[i][2]]

\* the conversion of a value of the type fails
CoercionFails(type, v) ==
    CASE type = "int" -> ~parseInt(v).ok
      [] type = "double" -> ~parseDouble(v).ok
      [] type = "bool" -> ~parseBool(v).ok
      [] type = "time" ->
           ~readTime([NewHandler EXCEPT
                          !.sections = <<[first |-> <<>>, second |-> <<<<<<"k">>, v>>>>]>>,
                          !.curSection = 1], <<"k">>, 0).ret
      [] OTHER -> FALSE

\* the field of the record a key is read into (the field that the value
\* read decides, for Version and ASCII)
Target(key) ==
    CASE key = K.Version -> "version"
      [] key = K.DefaultPlayLength -> "playLength"
      [] key = K.DefaultRecordLength -> "recordLength"
      [] key = K.VerboseLevel -> "verboseLevel"
      [] key = K.ASCII -> "glyphs"
      [] key = K.Ansi -> "ansi"
      [] key = K.Frequency -> "frequency"
      [] key = K.Channels -> "channels"
      [] key = K.BitsPerSample -> "precision"
      [] key = K.BufferLength -> "bufLength"
      [] key = K.ForceC64Model -> "modelForced"
      [] key = K.DigiBoost -> "digiboost"
      [] key = K.ForceSidModel -> "forceModel"
      [] key = K.UseFilter -> "filter"
      [] key = K.FilterBias -> "bias"
      [] key = K.FilterCurve6581 -> "filterCurve6581"
      [] key = K.FilterRange6581 -> "filterRange6581"
      [] key = K.FilterCurve8580 -> "filterCurve8580"
      [] key = K.PowerOnDelay -> "powerOnDelay"
      [] OTHER -> "fastSampling"

\* the keys of a group, among those the build reads, whose value in the
\* document the cycle started with is there and cannot be converted
FailedKeys(g) ==
    {i \in 1..Len(KeysRead(env, g)) :
        LET v == ValueIn(before.ini.sections, g, KeysRead(env, g)[i].key)
        IN  v.there /\ v.str # <<>> /\ CoercionFails(KeysRead(env, g)[i].type, v.str)}

\* the document a cycle leaves when all it does is to add what is missing:
\* the sections of the document it started with, each group's section with
\* the keys that were absent appended in the order of the reads, and the
\* sections of the groups that were absent appended in the order of the groups
MissingKeys(sections, g) ==
    LET S == {i \in 1..Len(KeysRead(env, g)) :
                 ~ValueIn(sections, g, KeysRead(env, g)[i].key).there}
    IN  SubSeq([j \in 1..Cardinality(S) |-> <<KeysRead(env, g)[Nth(S, j)].key, <<>>>>],
               1, Cardinality(S))

Completed(sections) ==
    LET G == {n \in 1..4 : GroupAt(sections, GroupNames[n]) = 0}
        grown == [n \in 1..Len(sections) |->
                    IF \E m \in 1..4 : GroupAt(sections, GroupNames[m]) = n
                    THEN [sections[n] EXCEPT
                            !.second = @ \o MissingKeys(sections,
                                GroupNames[CHOOSE m \in 1..4 :
                                    GroupAt(sections, GroupNames[m]) = n])]
                    ELSE sections[n]]
    IN  SubSeq(grown, 1, Len(sections))
        \o SubSeq([j \in 1..Cardinality(G) |-> FreshSection(env, GroupNames[Nth(G, j)])],
                  1, Cardinality(G))

\* the cycle started with a document that has no legacy entry and a value
\* that cannot be converted
HadFailure ==
    /\ CycleDone
    /\ \E n \in 1..4 : FailedKeys(GroupNames[n]) # {}
    /\ \A n \in 1..Len(before.ini.sections) :
         FindKey(before.ini.sections[n].second, K.filterRange6581)
             = Len(before.ini.sections[n].second) + 1

\* C12: after a cycle in which a value could not be converted, the field of
\* that key is what clear() gave it, the entries of the document are as they
\* were, every key that was absent has been added (the keys read after the
\* failure included), and the document is dirty only if a key was added
C12_CoercionFailureContinues ==
    HadFailure =>
        /\ \A n \in 1..4 : \A i \in FailedKeys(GroupNames[n]) :
             rec[Target(KeysRead(env, GroupNames[n])[i].key)]
                 = clear(before.rec)[Target(KeysRead(env, GroupNames[n])[i].key)]
        /\ op.arg.sections = Completed(before.ini.sections)
        /\ op.arg.changed = (op.arg.sections # before.ini.sections)
        /\ Complete(op.arg.sections, env)

(***************************************************************************)
(* iniHandler::open on the files the host can hold: a file that is not     *)
(* there, one that cannot be opened for reading, and one whose reading     *)
(* fails part of the way.                                                   *)
(***************************************************************************)
HostFiles ==
    {[exists |-> FALSE, readable |-> FALSE, writable |-> w, lines |-> <<>>, bad |-> {}] :
        w \in BOOLEAN}
    \cup {d \in [exists : {TRUE}, readable : BOOLEAN, writable : BOOLEAN,
                 lines : SeqsUpTo(StoreLines, MaxFileLines),
                 bad : {{}} \cup {{n} : n \in 0..MaxFileLines}] :
            \A n \in d.bad : d.readable /\ n <= Len(d.lines)}

InitOpen ==
    /\ disk \in HostFiles
    /\ ini = NewHandler
    /\ pc = "closed"
    /\ op = NoOp
    /\ before = [ini |-> NewHandler, rec |-> Defaults, disk |-> disk]
    /\ rec = Defaults
    /\ mutated = FALSE
    /\ env = HostEnv

NextOpen ==
    \/ Open
    \/ \E section \in SectionNames : SetSection(section)
    \/ Close

SpecOpen == InitOpen /\ [][NextOpen]_vars

\* open has just returned
Opened == op.name = "open"

\* the load of the file the call found succeeded
Loaded(d) == d.exists /\ d.readable /\ d.bad = {}

\* C13: open creates an empty file only when the file is absent, leaves a
\* file that exists as it is whether or not the load succeeded, and returns
\* false only if neither the load nor the creation succeeded
C13_OpenCreatesOnlyWhenAbsent ==
    Opened =>
        /\ disk # before.disk => (~before.disk.exists /\ disk.exists /\ disk.lines = <<>>)
        /\ before.disk.exists => disk = before.disk
        /\ ~op.ret => (~Loaded(before.disk) /\ ~before.disk.writable)

\* the ASCII key of the document the cycle started with holds a value that
\* parses to true
AsciiTrue ==
    LET v == ValueIn(before.ini.sections, "Console", K.ASCII)
    IN  v.there /\ v.str # <<>> /\ parseBool(v.str).ok /\ parseBool(v.str).val

\* C14: after a cycle the eight glyph fields hold the ASCII glyphs if the
\* ASCII key held a value that parses to true, and the box glyphs clear()
\* gave them otherwise (key absent, empty, unparsable or false)
C14_GlyphsFollowAscii ==
    CycleDone => rec.glyphs = IF AsciiTrue THEN AsciiGlyphs ELSE BoxGlyphs

\* a cycle that follows a complete cycle on the same path, on a file that
\* can be written, has ended
FollowingCycle == CycleDone /\ op.n >= 2 /\ before.disk.writable

\* C15: a cycle that follows a complete cycle on the file that cycle left,
\* when the file can be written, inserts no section and no key, leaves the
\* document clean and does not rewrite the file
C15_FollowingCycleInsertsNothing ==
    FollowingCycle =>
        /\ op.arg.sections = before.ini.sections
        /\ ~op.arg.changed
        /\ ~op.ret
        /\ disk = before.disk

\* the DigiBoost field a cycle on the document it started with produces from
\* a record whose digiboost was g before the call: the value of the key when
\* it is there and converts, what clear() left otherwise
DigiBoostFrom(g) ==
    LET v == ValueIn(before.ini.sections, "Emulation", K.DigiBoost)
    IN  IF v.there /\ v.str # <<>> /\ parseBool(v.str).ok
        THEN parseBool(v.str).val
        ELSE clear([before.rec EXCEPT !.digiboost = g]).digiboost

\* C16: the record a cycle produces does not depend on the record before
\* the call: the DigiBoost field is the one the same file gives from a
\* record with any other digiboost
C16_RecordFromFileOnly ==
    CycleDone => \A g \in BOOLEAN : rec.digiboost = DigiBoostFrom(g)

=============================================================================
